---- MODULE Spec2Model ----
(***************************************************************************)
(* A model of src/app.py: the retrying Ashby RPC client (ashby_request),   *)
(* the cursor-following fetcher built on it (ashby_request_paginated) and  *)
(* the candidate stream (get_candidates.generate) with its thread pool of  *)
(* resume-handle lookups.                                                  *)
(***************************************************************************)
EXTENDS Integers, Sequences, FiniteSets, TLC

(***************************************************************************)
(* Bounds of the model.                                                    *)
(***************************************************************************)
\* the largest `retries` argument a direct call of ashby_request is given
MaxRetries == 3
\* the largest number of page requests upstream lets one fetch make
MaxPages == 3
\* the largest number of records upstream serves to one fetch
MaxApps == 11
MaxDocs == 3
MaxPdfsPerFile == 2
ScenarioDocs == 23

(***************************************************************************)
(* Program constants.                                                      *)
(***************************************************************************)
DefaultRetries == 3
DefaultRetryAfter == 5
TransientWait == 2
MaxWorkers == 10
ProgressEvery == 10
DefaultPdfsPerFile == 10

(***************************************************************************)
(* Upstream data.  An envelope is the parsed JSON object of a response:    *)
(* success, results (<<>> when the key is missing), the moreDataAvailable  *)
(* flag, nextCursor (0: missing or empty) and errors.                      *)
(***************************************************************************)
Envelope(s, res, more, cur, err) ==
    [success |-> s, results |-> res, more |-> more, cursor |-> cur,
     errors |-> err]

\* application records 4..13 arrive as one page of ten
BigPage == <<4, 5, 6, 7, 8, 9, 10, 11, 12, 13>>

\* the `results` lists upstream serves as one page
PageMenu == {<<>>, <<2, 1>>, <<3>>, BigPage}

\* the nextCursor of a response: a token, or 0 for a missing or empty one
Cursors == {0, 1, 2}

OkBodies ==
    {Envelope(TRUE, p, m, c, "") :
        p \in PageMenu, m \in BOOLEAN, c \in Cursors}

\* the explicit success:false envelope
UpstreamFailure == Envelope(FALSE, <<>>, FALSE, 0, "upstream error")

JsonBodies == OkBodies \cup {UpstreamFailure}

NoBody == Envelope(FALSE, <<>>, FALSE, 0, "")

\* the Retry-After header of a 429 response: 0 stands for absent
RetryAfterHeaders == {0, 3}

Response(kind, ra, body) == [kind |-> kind, retryAfter |-> ra, body |-> body]

TransientKinds == {"empty", "badjson", "neterr"}

(***************************************************************************)
(* ashby_request                                                           *)
(***************************************************************************)
\* int(response.headers.get('Retry-After', 5))
RetryAfter(ra) == IF ra = 0 THEN DefaultRetryAfter ELSE ra

\* `continue` of the 429 branch: the for loop moves on to the next attempt
AfterRateLimitKeepsAttempt(a) == a
AfterRateLimit(a) == a + 1

\* `for attempt in range(retries)` has another iteration to run
InRangeInclusive(a, r) == a <= r
InRange(a, r) == a < r

\* `if attempt < retries - 1` of the three transient branches
CanRetryOffByOne(a, r) == a < r
CanRetry(a, r) == a < r - 1

ErrorMessageWrongClass(kind) == "Invalid JSON response from API"
ErrorMessage(kind) ==
    CASE kind = "empty" -> "Empty response from API"
      [] kind = "badjson" -> "Invalid JSON response from API"
      [] kind = "neterr" -> "Request failed: e"

MaxRetriesMessage == "Max retries exceeded"

\* {'success': False, 'errors': msg}
Failure(msg) == Envelope(FALSE, <<>>, FALSE, 0, msg)

\* `return response.json()`
ParsedResultForcedSuccess(body) == [body EXCEPT !.success = TRUE]
ParsedResult(body) == body

(***************************************************************************)
(* ashby_request_paginated                                                 *)
(***************************************************************************)
\* `if not result.get('success'): return result`
PageFailureWithPartial(result, acc) == [result EXCEPT !.results = acc]
PageFailure(result, acc) == result

\* all_results.extend(result.get('results', []))
ExtendPrepending(acc, page) == page \o acc
Extend(acc, page) == acc \o page

\* `result.get('moreDataAvailable') and result.get('nextCursor')`
MoreToFetchFlagOnly(result) == result.more
MoreToFetch(result) == result.more /\ result.cursor # 0

\* request_data: the caller's parameters, with the cursor when there is one
RequestDataWithoutCursor(params, cur) == [jobId |-> params.jobId, cursor |-> 0]
RequestData(params, cur) == [jobId |-> params.jobId, cursor |-> cur]

\* the `data` argument: its jobId, "" when the caller gives no parameters
Params(job) == [jobId |-> job]

\* {'success': True, 'results': all_results}
PageSuccess(acc) == Envelope(TRUE, acc, FALSE, 0, "")

(***************************************************************************)
(* get_candidates                                                          *)
(***************************************************************************)
\* app_data.get('candidate', {}).get('id'); application 3 has no candidate
\* (0 stands for None)
AppCandidate(a) == IF a = 3 THEN 0 ELSE a

\* the application's currentInterviewStage: application 2 carries JSON null
AppStage(a) ==
    CASE a = 1 -> "S1"
      [] a = 2 -> "null"
      [] a = 3 -> "S2"
      [] OTHER -> IF a % 2 = 0 THEN "S1" ELSE "S2"

\* app.get('currentInterviewStage', {}).get('id') raises AttributeError when
\* the stage is null; the comprehension runs only when stage_id is given
StageFilterRaises(apps, stage) ==
    stage # "" /\ \E k \in 1..Len(apps) : AppStage(apps[k]) = "null"

StageMatches(a, stage) == AppStage(a) = stage

FilterByStage(apps, stage) ==
    IF stage = "" THEN apps
    ELSE SelectSeq(apps, LAMBDA a : StageMatches(a, stage))

\* the record appended to `candidates` for one application
BasicCandidate(a) ==
    [id |-> AppCandidate(a), applicationId |-> a, resumeFileHandle |-> 0]

\* what ashby_request('candidate.info', {'id': c}) returns for candidate c
CandidateInfo(c) ==
    CASE c = 2 -> "noresume"
      [] c = 5 -> "resultsnull"
      [] c = 6 -> "failure"
      [] OTHER -> "handle"

\* fetch_candidate_resume_handle: the value returned (0 stands for None), or
\* the exception raised by candidate_full.get on results null
Lookup(c) ==
    IF c = 0 THEN [raised |-> FALSE, value |-> 0]
    ELSE CASE CandidateInfo(c) = "handle" ->
                 [raised |-> FALSE, value |-> 100 + c]
           [] CandidateInfo(c) = "noresume" -> [raised |-> FALSE, value |-> 0]
           [] CandidateInfo(c) = "failure" -> [raised |-> FALSE, value |-> 0]
           [] CandidateInfo(c) = "resultsnull" -> [raised |-> TRUE, value |-> 0]

\* ThreadPoolExecutor(max_workers=10): a worker is free for the next lookup
WorkerFreeUnbounded(running) == TRUE
WorkerFree(running) == running < MaxWorkers

\* `completed_count += 1`, after the try/except around future.result()
CountAfterSkippingFailed(count, raised) == IF raised THEN count ELSE count + 1
CountAfter(count, raised) == count + 1

\* the as_completed loop has handled every future
AllCollectedOrFinished(t) ==
    \A i \in 1..Len(t) : t[i] \in {"finished", "collected"}
AllCollected(t) == \A i \in 1..Len(t) : t[i] = "collected"

\* `if not applications_result.get('success')`
ListingFailedIgnored(result) == FALSE
ListingFailed(result) == ~result.success

\* idx = future_to_idx[future]
ResultIndexByCompletion(idx, count) == count + 1
ResultIndex(idx, count) == idx

\* completed_count % 10 == 0 or completed_count == total_candidates
ProgressDueOnTensOnly(count, total) == count % ProgressEvery = 0
ProgressDue(count, total) == count % ProgressEvery = 0 \/ count = total

\* int((completed_count / total_candidates) * 100); within the bounds of the
\* model the float product is never within rounding of an integer it misses
Percent(count, total) == (count * 100) \div total

Event(type, message, count, current, total, percent, cands) ==
    [type |-> type, message |-> message, count |-> count, current |-> current,
     total |-> total, percent |-> percent, candidates |-> cands]

StatusEvent(message, count) == Event("status", message, count, 0, 0, 0, <<>>)
ProgressEvent(current, total) ==
    Event("progress", "", 0, current, total, Percent(current, total), <<>>)
ErrorEvent == Event("error", "Failed to get applications", 0, 0, 0, 0, <<>>)
CompleteEvent(cands) == Event("complete", "", 0, 0, 0, 0, cands)

(***************************************************************************)
(* login_required                                                          *)
(***************************************************************************)
\* an HTTP answer: its status and, for a redirect, where it sends the client
Answer(status, location) == [status |-> status, location |-> location]

NoAnswer == Answer(0, "")

\* the routes behind @login_required that this model runs, and their paths
Routes == {"index", "candidates", "combine"}

ApiRoutes == {"candidates", "combine"}

\* request.path.startswith('/api/')
IsApiPath(route) == route \in ApiRoutes

\* `if not session.get('authenticated')` lets the request through
LoggedInAlways(auth) == TRUE
LoggedIn(auth) == auth

\* what the decorator answers instead of calling the route's function
Denied(json, route) ==
    IF json \/ IsApiPath(route) THEN Answer(401, "")
    ELSE Answer(302, "/login")

(***************************************************************************)
(* combine_pdfs                                                            *)
(***************************************************************************)
\* an entry of the uploaded archive. Its name is <stem>.<ext>, under
\* __MACOSX/ when macosx; names are ordered by their stems. readable: zf.read
\* returns its bytes; parses: PdfReader accepts them, as `pages` pages;
\* raises_at: the page at which the loop over pdf_reader.pages raises (0: it
\* does not).
Entry(stem, ext, macosx, readable, parses, pages, raises_at) ==
    [stem |-> stem, ext |-> ext, macosx |-> macosx, readable |-> readable,
     parses |-> parses, pages |-> pages, raises_at |-> raises_at]

EntryMenu ==
    { Entry(1, "pdf", FALSE, TRUE, TRUE, 2, 0),
      Entry(2, "PDF", FALSE, TRUE, TRUE, 1, 0),
      Entry(3, "pdf", FALSE, TRUE, FALSE, 0, 0),
      Entry(4, "pdf", FALSE, FALSE, FALSE, 0, 0),
      Entry(5, "txt", FALSE, TRUE, FALSE, 0, 0),
      Entry(6, "pdf", TRUE, TRUE, TRUE, 1, 0),
      Entry(7, "pdf", FALSE, TRUE, TRUE, 2, 2) }

\* the namelists of an archive of at most MaxDocs entries, in any order
Namelists ==
    { n \in UNION {[1..k -> EntryMenu] : k \in 0..MaxDocs} :
         \A a, b \in 1..Len(n) : a # b => n[a].stem # n[b].stem }

\* an archive of ScenarioDocs one-page documents listed in descending order,
\* the last three of which do not parse
ScenarioNamelist ==
    [k \in 1..ScenarioDocs |->
        LET stem == ScenarioDocs + 1 - k
        IN Entry(stem, "pdf", FALSE, TRUE, stem + 3 <= ScenarioDocs,
                 IF stem + 3 <= ScenarioDocs THEN 1 ELSE 0, 0)]

\* request.files: no 'zipfile', one that is no ZIP archive, or an archive
Upload(present, valid, names) ==
    [present |-> present, valid |-> valid, names |-> names]

NoUpload == Upload(FALSE, FALSE, <<>>)

Uploads ==
    {NoUpload, Upload(TRUE, FALSE, <<>>)}
       \cup {Upload(TRUE, TRUE, n) : n \in Namelists}

\* request.form's pdfsPerFile: <<>> when absent, else <<its value>>
FormValues == {<<>>} \cup {<<n>> : n \in -1..MaxPdfsPerFile}

\* int(request.form.get('pdfsPerFile', 10))
PdfsPerFile(form) == IF form = <<>> THEN DefaultPdfsPerFile ELSE form[1]

\* `if pdfs_per_file < 1` does not reject
BatchSizeNonNegative(n) == n >= 0
BatchSizeValid(n) == n >= 1

\* name.lower()
Lower(ext) == IF ext = "PDF" THEN "pdf" ELSE ext

\* name.lower().endswith('.pdf') and not name.startswith('__MACOSX')
IsPdfName(e) == Lower(e.ext) = "pdf" /\ ~e.macosx

NameBefore(a, b) == a.stem < b.stem

\* pdf_names: sorted([name for name in zf.namelist() if ...])
PdfNames(names) == SortSeq(SelectSeq(names, IsPdfName), NameBefore)

\* pdf_files: the entries zf.read returned, the others skipped
ReadFiles(names) == SelectSeq(names, LAMBDA e : e.readable)

\* math.ceil(len(pdf_files) / pdfs_per_file)
NumOutputFilesFloor(count, per) == count \div per
NumOutputFiles(count, per) ==
    IF count % per = 0 THEN count \div per ELSE count \div per + 1

Min(a, b) == IF a < b THEN a ELSE b

\* pdf_files[start_idx:end_idx] of iteration i (0-indexed)
Batch(files, i, per) ==
    SubSeq(files, i * per + 1, Min((i + 1) * per, Len(files)))

\* the number of add_page calls made for one document before the try block
\* is left: none when PdfReader raises, those before the page that raises,
\* else one for each page
PagesAdded(e) ==
    IF ~e.parses THEN 0
    ELSE IF e.raises_at # 0 THEN e.raises_at - 1
    ELSE e.pages

\* the pages one document leaves in pdf_writer, each tagged with its document
PagesOf(e) == [p \in 1..PagesAdded(e) |-> <<e.stem, p>>]

\* the pages pdf_writer holds after the batch, in batch order; the except
\* clause goes on with the next document and removes nothing
RECURSIVE Merge(_)
Merge(batch) ==
    IF batch = <<>> THEN <<>>
    ELSE PagesOf(Head(batch)) \o Merge(Tail(batch))

\* the decimal digits of n
RECURSIVE Digits(_)
Digits(n) == IF n < 10 THEN <<n>> ELSE Append(Digits(n \div 10), n % 10)

\* the format `0{w}d`: zero-padded on the left to at least w digits
RECURSIVE ZeroPad(_, _)
ZeroPad(ds, w) == IF Len(ds) >= w THEN ds ELSE ZeroPad(<<0>> \o ds, w)

\* f"combined_{i + 1:03d}.pdf": the digits between "combined_" and ".pdf"
OutputFilenameZeroBased(i) == ZeroPad(Digits(i), 3)
OutputFilename(i) == ZeroPad(Digits(i + 1), 3)

\* one member of the output archive
OutputFile(i, pages) == [filename |-> OutputFilename(i), pages |-> pages]

VARIABLES
    op,          \* the operation this run performs
    retries,     \* ashby_request: the `retries` argument
    rqPc,        \* ashby_request: "idle", "running" or "done"
    attempt,     \* ashby_request: the loop variable
    rqLog,       \* ashby_request: the responses received by this call, in order
    rqSleeps,    \* ashby_request: the durations of this call's time.sleep calls
    rqResult,    \* ashby_request: the value returned
    pgPc,        \* ashby_request_paginated: "idle", "loop", "call" or "done"
    all_results, \* ashby_request_paginated: the accumulator
    cursor,      \* ashby_request_paginated: the cursor to send (0: None)
    data,        \* ashby_request_paginated: the `data` argument
    pgSent,      \* the request_data of each page request of this fetch, in order
    pgPages,     \* what ashby_request returned for each of them, in order
    pgResult,    \* ashby_request_paginated: the value returned
    job_id,      \* get_candidates: the jobId argument ("": not given)
    stage_id,    \* get_candidates: the stageId argument ("": not given)
    gcPc,        \* get_candidates: "idle", "rejected", "listing", "fanout",
                 \*   "closed" (generate returned) or "raised" (it raised)
    events,      \* the frames generate has yielded, in order
    applications_result,
    candidates,
    candidate_ids,
    total_candidates,
    completed_count,
    task,        \* each submitted future: "queued", "running", "finished"
                 \*   or "collected" (yielded by as_completed and handled)
    authenticated, \* session.get('authenticated')
    is_json,     \* request.is_json
    response,    \* the answer the route has returned (NoAnswer: none yet)
    upload,      \* combine_pdfs: request.files
    form,        \* combine_pdfs: request.form's pdfsPerFile
    cbPc,        \* combine_pdfs: "idle", "open", "write" or "done"
    pdfs_per_file,
    pdf_files,
    num_output_files,
    batches,     \* combine_pdfs: the `batch` of each iteration so far
    output_zip   \* combine_pdfs: the members written to output_zip, in order

rqVars == <<retries, rqPc, attempt, rqLog, rqSleeps, rqResult>>
pgVars == <<pgPc, all_results, cursor, data, pgSent, pgPages, pgResult>>
gcVars == <<job_id, stage_id, gcPc, events, applications_result, candidates,
            candidate_ids, total_candidates, completed_count, task>>
auVars == <<authenticated, is_json, response>>
cbVars == <<upload, form, cbPc, pdfs_per_file, pdf_files, num_output_files,
            batches, output_zip>>
vars == <<op, rqVars, pgVars, gcVars, auVars, cbVars>>

Ops == {"request", "paginated", "candidates", "index", "combine"}

Init ==
    /\ op \in Ops
    /\ retries \in (IF op = "request" THEN 0..MaxRetries ELSE {DefaultRetries})
    /\ rqPc = "idle"
    /\ attempt = 0
    /\ rqLog = <<>>
    /\ rqSleeps = <<>>
    /\ rqResult = NoBody
    /\ pgPc = "idle"
    /\ all_results = <<>>
    /\ cursor = 0
    /\ data = Params("")
    /\ pgSent = <<>>
    /\ pgPages = <<>>
    /\ pgResult = NoBody
    /\ job_id \in (IF op = "candidates" THEN {"", "J1"} ELSE {""})
    /\ stage_id \in (IF op = "candidates" /\ job_id # "" THEN {"", "S1"} ELSE {""})
    /\ gcPc = "idle"
    /\ events = <<>>
    /\ applications_result = NoBody
    /\ candidates = <<>>
    /\ candidate_ids = <<>>
    /\ total_candidates = 0
    /\ completed_count = 0
    /\ task = <<>>
    /\ authenticated \in (IF op \in Routes THEN BOOLEAN ELSE {TRUE})
    /\ is_json \in (IF authenticated THEN {FALSE} ELSE BOOLEAN)
    /\ response = NoAnswer
    /\ IF op = "combine"
          THEN \/ upload \in Uploads /\ form \in FormValues
               \/ /\ upload = Upload(TRUE, TRUE, ScenarioNamelist)
                  /\ form = <<>>
          ELSE upload = NoUpload /\ form = <<>>
    /\ cbPc = "idle"
    /\ pdfs_per_file = 0
    /\ pdf_files = <<>>
    /\ num_output_files = 0
    /\ batches = <<>>
    /\ output_zip = <<>>

\* a caller enters ashby_request
EnterRequest(r) ==
    /\ retries' = r
    /\ rqPc' = "running"
    /\ attempt' = 0
    /\ rqLog' = <<>>
    /\ rqSleeps' = <<>>
    /\ rqResult' = NoBody

\* a direct call, as get_stages or download_resume makes
CallRequest ==
    /\ op = "request"
    /\ rqPc = "idle"
    /\ EnterRequest(retries)
    /\ UNCHANGED <<op, pgVars, gcVars>>
    /\ UNCHANGED <<auVars, cbVars>>

\* one iteration answered with status 429
RateLimited ==
    /\ rqPc = "running"
    /\ InRange(attempt, retries)
    /\ \E ra \in RetryAfterHeaders :
          /\ rqLog' = Append(rqLog, Response("rate", ra, NoBody))
          /\ rqSleeps' = Append(rqSleeps, RetryAfter(ra))
    /\ attempt' = AfterRateLimit(attempt)
    /\ UNCHANGED <<op, retries, rqPc, rqResult, pgVars, gcVars>>
    /\ UNCHANGED <<auVars, cbVars>>

\* one iteration that ends in an empty body, an unparsable body or a
\* requests.exceptions.RequestException
TransientFailure ==
    /\ rqPc = "running"
    /\ InRange(attempt, retries)
    /\ \E kind \in TransientKinds :
          /\ rqLog' = Append(rqLog, Response(kind, 0, NoBody))
          /\ IF CanRetry(attempt, retries)
                THEN /\ rqSleeps' = Append(rqSleeps, TransientWait)
                     /\ attempt' = attempt + 1
                     /\ UNCHANGED <<rqPc, rqResult>>
                ELSE /\ rqResult' = Failure(ErrorMessage(kind))
                     /\ rqPc' = "done"
                     /\ UNCHANGED <<rqSleeps, attempt>>
    /\ UNCHANGED <<op, retries, pgVars, gcVars>>
    /\ UNCHANGED <<auVars, cbVars>>

\* The bounds on upstream: a fetch is served at most MaxApps records, the page
\* of ten only as its first page, and is told to go on only while it has made
\* fewer than MaxPages requests.
UpstreamServes(body) ==
    /\ Len(all_results) + Len(body.results) <= MaxApps
    /\ body.results = BigPage => Len(pgSent) <= 1
    /\ (body.more /\ body.cursor # 0) => Len(pgSent) < MaxPages

\* one iteration answered with a body that parses
JsonResponse ==
    /\ rqPc = "running"
    /\ InRange(attempt, retries)
    /\ \E body \in JsonBodies :
          /\ UpstreamServes(body)
          /\ rqLog' = Append(rqLog, Response("json", 0, body))
          /\ rqResult' = ParsedResult(body)
    /\ rqPc' = "done"
    /\ UNCHANGED <<op, retries, attempt, rqSleeps, pgVars, gcVars>>
    /\ UNCHANGED <<auVars, cbVars>>

\* the for loop ran out of attempts
Exhausted ==
    /\ rqPc = "running"
    /\ ~InRange(attempt, retries)
    /\ rqResult' = Failure(MaxRetriesMessage)
    /\ rqPc' = "done"
    /\ UNCHANGED <<op, retries, attempt, rqLog, rqSleeps, pgVars, gcVars>>
    /\ UNCHANGED <<auVars, cbVars>>

\* ashby_request returns to its caller: its locals are gone
LeaveRequest ==
    /\ rqPc' = "idle"
    /\ attempt' = 0
    /\ rqLog' = <<>>
    /\ rqSleeps' = <<>>
    /\ rqResult' = NoBody
    /\ UNCHANGED retries

\* a caller enters ashby_request_paginated
EnterPaginated(params) ==
    /\ data' = params
    /\ pgPc' = "loop"
    /\ all_results' = <<>>
    /\ cursor' = 0
    /\ pgSent' = <<>>
    /\ pgPages' = <<>>
    /\ pgResult' = NoBody

\* ashby_request_paginated returns to its caller: its locals are gone
LeavePaginated ==
    /\ data' = Params("")
    /\ pgPc' = "idle"
    /\ all_results' = <<>>
    /\ cursor' = 0
    /\ pgSent' = <<>>
    /\ pgPages' = <<>>
    /\ pgResult' = NoBody

\* a call of ashby_request_paginated, as get_jobs makes
CallPaginated ==
    /\ op = "paginated"
    /\ pgPc = "idle"
    /\ \E job \in {"", "J1"} : EnterPaginated(Params(job))
    /\ UNCHANGED <<op, rqVars, gcVars>>
    /\ UNCHANGED <<auVars, cbVars>>

\* the top of an iteration: build request_data and call ashby_request
PageRequest ==
    /\ pgPc = "loop"
    /\ pgSent' = Append(pgSent, RequestData(data, cursor))
    /\ EnterRequest(DefaultRetries)
    /\ pgPc' = "call"
    /\ UNCHANGED <<op, all_results, cursor, data, pgPages, pgResult, gcVars>>
    /\ UNCHANGED <<auVars, cbVars>>

\* the rest of the iteration, once ashby_request has returned
PageResult ==
    /\ pgPc = "call"
    /\ rqPc = "done"
    /\ pgPages' = Append(pgPages, rqResult)
    /\ IF ~rqResult.success
          THEN /\ pgResult' = PageFailure(rqResult, all_results)
               /\ pgPc' = "done"
               /\ UNCHANGED <<all_results, cursor>>
          ELSE /\ all_results' = Extend(all_results, rqResult.results)
               /\ IF MoreToFetch(rqResult)
                     THEN /\ cursor' = rqResult.cursor
                          /\ pgPc' = "loop"
                          /\ UNCHANGED pgResult
                     ELSE /\ pgResult' = PageSuccess(all_results')
                          /\ pgPc' = "done"
                          /\ UNCHANGED cursor
    /\ LeaveRequest
    /\ UNCHANGED <<op, data, pgSent, gcVars>>
    /\ UNCHANGED <<auVars, cbVars>>

Running == {i \in 1..Len(task) : task[i] = "running"}

\* get_candidates up to the first frame of generate and its call of
\* ashby_request_paginated; without a jobId it answers 400 and streams nothing
CallCandidates ==
    /\ op = "candidates"
    /\ LoggedIn(authenticated)
    /\ gcPc = "idle"
    /\ IF job_id = ""
          THEN /\ gcPc' = "rejected"
               /\ response' = Answer(400, "")
               /\ UNCHANGED <<events, pgVars>>
          ELSE /\ events' = Append(events,
                                   StatusEvent("Fetching applications...", 0))
               /\ EnterPaginated(Params(job_id))
               /\ gcPc' = "listing"
               /\ response' = Answer(200, "")
    /\ UNCHANGED <<authenticated, is_json, cbVars>>
    /\ UNCHANGED <<op, rqVars, job_id, stage_id, applications_result,
                   candidates, candidate_ids, total_candidates,
                   completed_count, task>>

\* generate from the return of ashby_request_paginated to the submission of
\* the lookups (lines 224-270), or to its end when there is none to submit
Listed ==
    /\ gcPc = "listing"
    /\ pgPc = "done"
    /\ applications_result' = pgResult
    /\ LeavePaginated
    /\ IF ListingFailed(pgResult)
          THEN /\ events' = Append(events, ErrorEvent)
               /\ gcPc' = "closed"
               /\ UNCHANGED <<candidates, candidate_ids, total_candidates,
                              task>>
          ELSE LET all_apps == pgResult.results
                   found == Append(events,
                               StatusEvent("Found applications", Len(all_apps)))
               IN IF StageFilterRaises(all_apps, stage_id)
                     THEN /\ events' = found
                          /\ gcPc' = "raised"
                          /\ UNCHANGED <<candidates, candidate_ids,
                                         total_candidates, task>>
                     ELSE LET filtered_apps == FilterByStage(all_apps, stage_id)
                              total == Len(filtered_apps)
                              basic == [k \in 1..total |->
                                           BasicCandidate(filtered_apps[k])]
                              fetching == Append(found,
                                  StatusEvent("Found candidates in stage", total))
                          IN /\ total_candidates' = total
                             /\ candidates' = basic
                             /\ candidate_ids' =
                                   [k \in 1..total |-> basic[k].id]
                             /\ IF total > 0
                                   THEN /\ task' = [k \in 1..total |-> "queued"]
                                        /\ events' = fetching
                                        /\ gcPc' = "fanout"
                                   ELSE /\ task' = <<>>
                                        /\ events' = Append(fetching,
                                                        CompleteEvent(basic))
                                        /\ gcPc' = "closed"
    /\ UNCHANGED <<op, rqVars, job_id, stage_id, completed_count>>
    /\ UNCHANGED <<auVars, cbVars>>

\* a free worker of the pool takes the next queued lookup
TaskStart ==
    /\ gcPc = "fanout"
    /\ WorkerFree(Cardinality(Running))
    /\ \E i \in 1..Len(task) :
          /\ task[i] = "queued"
          /\ \A j \in 1..(i - 1) : task[j] # "queued"
          /\ task' = [task EXCEPT ![i] = "running"]
    /\ UNCHANGED <<op, rqVars, pgVars, job_id, stage_id, gcPc, events,
                   applications_result, candidates, candidate_ids,
                   total_candidates, completed_count>>
    /\ UNCHANGED <<auVars, cbVars>>

\* a worker's fetch_candidate_resume_handle returns or raises
TaskFinish ==
    /\ gcPc = "fanout"
    /\ \E i \in Running : task' = [task EXCEPT ![i] = "finished"]
    /\ UNCHANGED <<op, rqVars, pgVars, job_id, stage_id, gcPc, events,
                   applications_result, candidates, candidate_ids,
                   total_candidates, completed_count>>
    /\ UNCHANGED <<auVars, cbVars>>

\* one iteration of the as_completed loop (lines 271-283)
Collect ==
    /\ gcPc = "fanout"
    /\ \E idx \in 1..Len(task) :
          /\ task[idx] = "finished"
          /\ task' = [task EXCEPT ![idx] = "collected"]
          /\ LET outcome == Lookup(candidate_ids[idx])
                 at == ResultIndex(idx, completed_count)
             IN /\ candidates' =
                      IF outcome.raised THEN candidates
                      ELSE [candidates EXCEPT
                               ![at].resumeFileHandle = outcome.value]
                /\ completed_count' = CountAfter(completed_count,
                                                 outcome.raised)
    /\ events' = IF ProgressDue(completed_count', total_candidates)
                    THEN Append(events, ProgressEvent(completed_count',
                                                      total_candidates))
                    ELSE events
    /\ UNCHANGED <<op, rqVars, pgVars, job_id, stage_id, gcPc,
                   applications_result, candidate_ids, total_candidates>>
    /\ UNCHANGED <<auVars, cbVars>>

\* as_completed is exhausted, the pool shuts down, the last frame is yielded
Complete ==
    /\ gcPc = "fanout"
    /\ AllCollected(task)
    /\ events' = Append(events, CompleteEvent(candidates))
    /\ gcPc' = "closed"
    /\ UNCHANGED <<op, rqVars, pgVars, job_id, stage_id, applications_result,
                   candidates, candidate_ids, total_candidates,
                   completed_count, task>>
    /\ UNCHANGED <<auVars, cbVars>>

\* login_required answers in place of the route's function
Unauthorized ==
    /\ op \in Routes
    /\ response = NoAnswer
    /\ ~LoggedIn(authenticated)
    /\ response' = Denied(is_json, op)
    /\ UNCHANGED <<op, rqVars, pgVars, gcVars, authenticated, is_json, cbVars>>

\* index renders its template
Index ==
    /\ op = "index"
    /\ LoggedIn(authenticated)
    /\ response = NoAnswer
    /\ response' = Answer(200, "")
    /\ UNCHANGED <<op, rqVars, pgVars, gcVars, authenticated, is_json, cbVars>>

\* combine_pdfs up to its `try` (lines 393-400)
CallCombine ==
    /\ op = "combine"
    /\ LoggedIn(authenticated)
    /\ cbPc = "idle"
    /\ IF ~upload.present
          THEN /\ response' = Answer(400, "")
               /\ cbPc' = "done"
               /\ UNCHANGED pdfs_per_file
          ELSE /\ pdfs_per_file' = PdfsPerFile(form)
               /\ IF BatchSizeValid(pdfs_per_file')
                     THEN cbPc' = "open" /\ UNCHANGED response
                     ELSE cbPc' = "done" /\ response' = Answer(400, "")
    /\ UNCHANGED <<op, rqVars, pgVars, gcVars, authenticated, is_json,
                   upload, form, pdf_files, num_output_files, batches,
                   output_zip>>

\* the archive is opened, its PDF names are listed and sorted and their bytes
\* read (lines 403-433); BadZipFile and an archive without a PDF answer 400,
\* the ZeroDivisionError of line 433 is answered 500 by `except Exception`
OpenArchive ==
    /\ cbPc = "open"
    /\ IF ~upload.valid
          THEN /\ response' = Answer(400, "")
               /\ cbPc' = "done"
               /\ UNCHANGED <<pdf_files, num_output_files>>
          ELSE LET pdf_names == PdfNames(upload.names)
                   files == ReadFiles(pdf_names)
               IN IF Len(pdf_names) = 0
                     THEN /\ response' = Answer(400, "")
                          /\ cbPc' = "done"
                          /\ UNCHANGED <<pdf_files, num_output_files>>
                     ELSE /\ pdf_files' = files
                          /\ IF Len(files) = 0
                                THEN /\ response' = Answer(400, "")
                                     /\ cbPc' = "done"
                                     /\ UNCHANGED num_output_files
                                ELSE IF pdfs_per_file = 0
                                THEN /\ response' = Answer(500, "")
                                     /\ cbPc' = "done"
                                     /\ UNCHANGED num_output_files
                                ELSE /\ num_output_files' =
                                        NumOutputFiles(Len(files),
                                                       pdfs_per_file)
                                     /\ cbPc' = "write"
                                     /\ UNCHANGED response
    /\ UNCHANGED <<op, rqVars, pgVars, gcVars, authenticated, is_json,
                   upload, form, pdfs_per_file, batches, output_zip>>

\* one iteration of `for i in range(num_output_files)` (lines 439-463)
WriteBatch ==
    /\ cbPc = "write"
    /\ Len(output_zip) < num_output_files
    /\ LET i == Len(output_zip)
           batch == Batch(pdf_files, i, pdfs_per_file)
       IN /\ batches' = Append(batches, batch)
          /\ output_zip' = Append(output_zip, OutputFile(i, Merge(batch)))
    /\ UNCHANGED <<op, rqVars, pgVars, gcVars, auVars, upload, form, cbPc,
                   pdfs_per_file, pdf_files, num_output_files>>

\* the loop is over: send_file answers with the output archive
SendFile ==
    /\ cbPc = "write"
    /\ Len(output_zip) >= num_output_files
    /\ response' = Answer(200, "")
    /\ cbPc' = "done"
    /\ UNCHANGED <<op, rqVars, pgVars, gcVars, authenticated, is_json,
                   upload, form, pdfs_per_file, pdf_files, num_output_files,
                   batches, output_zip>>

Next ==
    \/ Unauthorized
    \/ Index
    \/ CallCombine
    \/ OpenArchive
    \/ WriteBatch
    \/ SendFile
    \/ CallCandidates
    \/ Listed
    \/ TaskStart
    \/ TaskFinish
    \/ Collect
    \/ Complete
    \/ CallPaginated
    \/ PageRequest
    \/ PageResult
    \/ CallRequest
    \/ RateLimited
    \/ TransientFailure
    \/ JsonResponse
    \/ Exhausted

Spec == Init /\ [][Next]_vars

\* A direct call of ashby_request on its own. Each step of the call is taken
\* in the end: requests.post is given a timeout and every sleep is finite.
RequestInit == Init /\ op = "request"

RequestNext ==
    \/ CallRequest
    \/ RateLimited
    \/ TransientFailure
    \/ JsonResponse
    \/ Exhausted

RequestSpec == RequestInit /\ [][RequestNext]_vars /\ WF_vars(RequestNext)

(***************************************************************************)
(* Properties of ashby_request                                             *)
(***************************************************************************)
Last(s) == s[Len(s)]

RECURSIVE CountKind(_, _)
CountKind(log, kinds) ==
    IF log = <<>> THEN 0
    ELSE (IF Last(log).kind \in kinds THEN 1 ELSE 0)
         + CountKind(SubSeq(log, 1, Len(log) - 1), kinds)

AllTransient(log) == \A k \in 1..Len(log) : log[k].kind \in TransientKinds

\* C1, as claimed: a 429 response consumes no retry slot, so while the call
\* runs the attempts used up are exactly the transient failures received and
\* the attempts still available are the same after a 429 as before it.
RateLimitKeepsBudget ==
    rqPc = "running" =>
        retries - attempt = retries - CountKind(rqLog, TransientKinds)

\* C1, amended: every response that does not end the call, a 429 included,
\* moves the loop to the next attempt; the wait after a 429 is its Retry-After
\* (5 if absent); a call whose last attempt is answered 429 has used all its
\* attempts and returns the failure "Max retries exceeded".
RateLimitConsumesAttempt ==
    /\ rqPc = "running" => attempt = Len(rqLog)
    /\ \A k \in 1..Len(rqLog) :
          rqLog[k].kind = "rate" =>
             /\ k <= Len(rqSleeps)
             /\ rqSleeps[k] = (IF rqLog[k].retryAfter = 0
                                  THEN 5 ELSE rqLog[k].retryAfter)
    /\ (rqPc = "done" /\ rqLog # <<>> /\ Last(rqLog).kind = "rate") =>
          /\ Len(rqLog) = retries
          /\ ~rqResult.success
          /\ rqResult.errors = "Max retries exceeded"

\* a call of three attempts, the first answered 429 with Retry-After: 3, the
\* last answered 429 as well
RateLimitWitness ==
    /\ rqPc = "done"
    /\ retries = 3
    /\ Len(rqLog) = 3
    /\ rqLog[1].kind = "rate" /\ rqLog[1].retryAfter = 3
    /\ rqLog[2].kind \in TransientKinds
    /\ rqLog[3].kind = "rate"

\* C2: without a 429, a call whose every attempt fails transiently issues
\* exactly `retries` requests, sleeps 2 after each but the last, and returns a
\* failure; while it runs each transient failure has used one attempt.
TransientFailuresUseAllAttempts ==
    AllTransient(rqLog) =>
        /\ rqPc = "running" =>
              /\ attempt = Len(rqLog)
              /\ rqSleeps = [k \in 1..Len(rqLog) |-> 2]
        /\ rqPc = "done" =>
              /\ Len(rqLog) = retries
              /\ rqSleeps = [k \in 1..(retries - 1) |-> 2]
              /\ ~rqResult.success

TransientFailuresWitness ==
    /\ rqPc = "done"
    /\ retries = 3
    /\ Len(rqLog) = 3
    /\ AllTransient(rqLog)
    /\ rqLog[1].kind # rqLog[3].kind

\* C3: a call that ends without a parsed body returns a failure whose reason
\* is "Max retries exceeded" when no request was made or the last one was
\* answered 429, and otherwise the message of the last attempt's failure.
ExhaustionReturnsFailure ==
    (rqPc = "done" /\ (rqLog = <<>> \/ Last(rqLog).kind # "json")) =>
        /\ ~rqResult.success
        /\ rqResult.errors =
              (CASE rqLog = <<>> -> "Max retries exceeded"
                 [] rqLog # <<>> /\ Last(rqLog).kind = "rate" ->
                       "Max retries exceeded"
                 [] rqLog # <<>> /\ Last(rqLog).kind = "empty" ->
                       "Empty response from API"
                 [] rqLog # <<>> /\ Last(rqLog).kind = "badjson" ->
                       "Invalid JSON response from API"
                 [] rqLog # <<>> /\ Last(rqLog).kind = "neterr" ->
                       "Request failed: e")

ExhaustionWitness ==
    /\ rqPc = "done"
    /\ retries = 3
    /\ Len(rqLog) = 3
    /\ rqLog[2].kind = "badjson"
    /\ rqLog[3].kind = "empty"
    /\ rqResult.errors = "Empty response from API"

\* C4: a parsed envelope with success false ends the call at once: it is the
\* value returned, whatever attempts remain, and no sleep follows it.
PermanentFailureReturnedAtOnce ==
    (rqLog # <<>> /\ Last(rqLog).kind = "json"
                  /\ ~Last(rqLog).body.success) =>
        /\ rqPc = "done"
        /\ rqResult = Last(rqLog).body
        /\ Len(rqSleeps) = Len(rqLog) - 1

\* the first of three attempts is answered success:false
PermanentFailureWitness ==
    /\ rqPc = "done"
    /\ retries = 3
    /\ Len(rqLog) = 1
    /\ rqLog[1].kind = "json"
    /\ rqResult = UpstreamFailure
    /\ rqSleeps = <<>>

(***************************************************************************)
(* Properties of ashby_request_paginated                                   *)
(***************************************************************************)
\* a page result that tells the fetch to go on
Continuing(r) == r.success /\ r.more /\ r.cursor # 0

ContinuingPages == {k \in 1..Len(pgPages) : Continuing(pgPages[k])}

\* the distinct next-cursor tokens the pages of this fetch returned
DistinctCursors == {pgPages[k].cursor : k \in 1..Len(pgPages)} \ {0}

RECURSIVE Flatten(_)
Flatten(pages) ==
    IF pages = <<>> THEN <<>>
    ELSE Flatten(SubSeq(pages, 1, Len(pages) - 1)) \o Last(pages).results

RECURSIVE SumLen(_)
SumLen(pages) ==
    IF pages = <<>> THEN 0
    ELSE SumLen(SubSeq(pages, 1, Len(pages) - 1)) + Len(Last(pages).results)

\* C5, as claimed: the page requests of a fetch are bounded by the number of
\* distinct cursors upstream returned (stated here with one more allowed, for
\* the first request, which carries no cursor).
PagesBoundedByDistinctCursors ==
    Len(pgSent) <= Cardinality(DistinctCursors) + 1

\* C5, amended: the fetch makes one request per iteration and stops at the
\* first page that is a failure or lacks a true more-data flag or a next
\* cursor; the requests it has made number one more than the
\* pages that told it to go on, counted with repetition, which is within the
\* number of distinct cursors plus one only if no cursor came back twice.
PagesBoundedByContinuations ==
    /\ Len(pgSent) <= Cardinality(ContinuingPages) + 1
    /\ pgPc = "loop" =>
          /\ Len(pgSent) = Len(pgPages)
          /\ ContinuingPages = 1..Len(pgPages)
    /\ pgPc = "done" =>
          /\ Len(pgSent) = Len(pgPages)
          /\ ContinuingPages = 1..(Len(pgPages) - 1)
    /\ (\A j, k \in ContinuingPages :
            pgPages[j].cursor = pgPages[k].cursor => j = k)
          => Len(pgSent) <= Cardinality(DistinctCursors) + 1

\* a fetch of three requests that was handed the same cursor twice
PagesRepeatedCursorWitness ==
    /\ pgPc = "done"
    /\ pgResult.success
    /\ Len(pgSent) = 3
    /\ pgPages[1].cursor = 1
    /\ pgPages[2].cursor = 1
    /\ Cardinality(DistinctCursors) = 1

\* C6: a successful fetch returns the results of the pages it requested,
\* concatenated in request order, and as many records as those pages hold.
FetchConcatenatesPages ==
    (pgPc = "done" /\ pgResult.success) =>
        /\ pgResult.results = Flatten(pgPages)
        /\ Len(pgResult.results) = SumLen(pgPages)
        /\ Len(pgPages) = Len(pgSent)

FetchConcatenatesWitness ==
    /\ pgPc = "done"
    /\ pgResult.success
    /\ Len(pgPages) = 3
    /\ pgResult.results = <<3, 2, 1, 3>>

\* C7: a page request that fails ends the fetch: its failure is the value
\* returned, no request follows it, and the value holds none of the records
\* of the earlier pages.
PageFailurePropagates ==
    (pgPages # <<>> /\ ~Last(pgPages).success) =>
        /\ pgPc = "done"
        /\ pgResult = Last(pgPages)
        /\ Len(pgSent) = Len(pgPages)
        /\ pgResult.results = <<>>

\* the third page fails after two pages of records
PageFailureWitness ==
    /\ pgPc = "done"
    /\ ~pgResult.success
    /\ Len(pgPages) = 3
    /\ all_results = <<2, 1, 3>>
    /\ pgResult.errors = "Empty response from API"

(***************************************************************************)
(* Properties of get_candidates                                            *)
(***************************************************************************)
\* the handle upstream holds for a candidate id (0: none to be had)
ExpectedHandle(c) == IF c \in {0, 2, 5, 6} THEN 0 ELSE 100 + c

StreamEnded == gcPc \in {"closed", "raised"}

Completed ==
    gcPc = "closed" /\ events # <<>> /\ Last(events).type = "complete"

\* C8: the enrichment keeps one record per identifier, in input order, and
\* the handle at position i is the one looked up for the identifier at
\* position i, whatever the order in which the lookups complete: while the
\* lookups run every collected position has its own handle and every other
\* position none, and the collection sent at the end has them all.
HandlesFollowInputOrder ==
    /\ gcPc \in {"fanout", "closed"} =>
          /\ Len(candidates) = Len(candidate_ids)
          /\ \A i \in 1..Len(candidates) :
                /\ candidates[i].id = candidate_ids[i]
                /\ candidates[i].resumeFileHandle =
                      (IF Len(task) >= i /\ task[i] = "collected"
                          THEN ExpectedHandle(candidate_ids[i]) ELSE 0)
    /\ Completed =>
          /\ Last(events).candidates = candidates
          /\ \A i \in 1..Len(candidate_ids) :
                candidates[i].resumeFileHandle =
                   ExpectedHandle(candidate_ids[i])

\* eleven identifiers, the lookups of the last two collected before that of
\* the first has finished
HandlesOutOfOrderWitness ==
    /\ gcPc = "fanout"
    /\ Len(candidate_ids) = 11
    /\ task[11] = "collected"
    /\ task[10] = "collected"
    /\ task[1] = "running"
    /\ candidates[10].resumeFileHandle = 113
    /\ candidates[1].resumeFileHandle = 0

\* the `current` of the Progress frames yielded so far, in order
RECURSIVE ProgressCurrents(_)
ProgressCurrents(evs) ==
    IF evs = <<>> THEN <<>>
    ELSE LET rest == ProgressCurrents(SubSeq(evs, 1, Len(evs) - 1))
         IN IF Last(evs).type = "progress"
               THEN Append(rest, Last(evs).current) ELSE rest

\* the counts up to n at which a Progress frame is due for a total of N
RECURSIVE DueCounts(_, _)
DueCounts(n, N) ==
    IF n = 0 THEN <<>>
    ELSE IF n % 10 = 0 \/ n = N
            THEN Append(DueCounts(n - 1, N), n) ELSE DueCounts(n - 1, N)

\* C9: the Progress frames of an N-item enrichment are, in order, one for
\* each completed count that is a multiple of 10 or equal to N, and no other;
\* they number at most ceil(N/10), and the last one of a finished enrichment
\* has current = N and is followed by the Complete frame alone.
ProgressAtTensAndTotal ==
    LET currents == ProgressCurrents(events)
        N == total_candidates
    IN /\ currents = DueCounts(completed_count, N)
       /\ Len(currents) <= (N + 9) \div 10
       /\ \A k \in 1..Len(events) :
             events[k].type = "progress" => events[k].total = N
       /\ (Completed /\ N > 0) =>
             /\ Last(currents) = N
             /\ events[Len(events) - 1].type = "progress"
             /\ events[Len(events) - 1].current = N

\* eleven identifiers: Progress at 10 and at 11, then Complete
ProgressWitness ==
    /\ Completed
    /\ total_candidates = 11
    /\ ProgressCurrents(events) = <<10, 11>>

\* C10, as claimed: in a stream every Status frame precedes every Progress
\* frame, a terminal frame (complete or error) is the last frame and the only
\* terminal one, and a stream that has ended ends with a terminal frame.
StreamEndsWithOneTerminal ==
    /\ \A j, k \in 1..Len(events) :
          (events[j].type = "progress" /\ events[k].type = "status") => k < j
    /\ \A k \in 1..Len(events) :
          events[k].type \in {"complete", "error"} =>
             (k = Len(events) /\ StreamEnded)
    /\ StreamEnded =>
          (events # <<>> /\ Last(events).type \in {"complete", "error"})

Collected == {i \in 1..Len(task) : task[i] = "collected"}

\* C11: at every moment of an enrichment at most 10 lookups are in flight,
\* however many identifiers were submitted.
AtMostTenInFlight ==
    Cardinality({i \in 1..Len(task) : task[i] = "running"}) <= 10

\* eleven identifiers submitted: ten lookups run, the eleventh waits
TenInFlightWitness ==
    /\ gcPc = "fanout"
    /\ Len(task) = 11
    /\ \A i \in 1..10 : task[i] = "running"
    /\ task[11] = "queued"

\* the identifiers whose lookup fails: candidate.info of 5 makes the lookup
\* raise, that of 6 is a failure
FailingIds == {5, 6}

\* C12: a lookup that fails leaves null at its own position and nowhere
\* else, still counts as completed, and the stream still ends with Complete.
FailedLookupLeavesNull ==
    gcPc \in {"fanout", "closed"} =>
        /\ completed_count = Cardinality(Collected)
        /\ \A i \in Collected :
              candidates[i].resumeFileHandle =
                 (IF candidate_ids[i] \in FailingIds \cup {0, 2}
                     THEN 0 ELSE 100 + candidate_ids[i])
        /\ (gcPc = "closed" /\ Len(task) > 0) =>
              /\ Collected = 1..Len(task)
              /\ completed_count = total_candidates
              /\ Last(events).type = "complete"
              /\ \A k \in 1..Len(events) : events[k].type # "error"

\* an enrichment of ten identifiers, two of them failing, has completed
FailedLookupWitness ==
    /\ Completed
    /\ Len(candidate_ids) = 10
    /\ candidate_ids[2] = 5 /\ candidate_ids[3] = 6
    /\ completed_count = 10
    /\ candidates[1].resumeFileHandle = 104
    /\ candidates[2].resumeFileHandle = 0
    /\ candidates[3].resumeFileHandle = 0
    /\ candidates[4].resumeFileHandle = 107

(***************************************************************************)
(* Properties of combine_pdfs                                              *)
(***************************************************************************)
\* the entries of the uploaded archive that pass the name filter and whose
\* bytes can be read
KeptEntries ==
    {e \in {upload.names[k] : k \in 1..Len(upload.names)} :
        e.ext \in {"pdf", "PDF"} /\ ~e.macosx /\ e.readable}

Ascending(s) == \A a, b \in 1..Len(s) : a < b => s[a].stem < s[b].stem

Combined == cbPc = "done" /\ response.status = 200

\* C13: the documents are taken in name order and cut into
\* ceil(count / batchSize) batches, batch i (0-indexed) being the documents at
\* positions [i*batchSize, min((i+1)*batchSize, count)): each document is in
\* exactly one batch, each batch but the last is full, and the batches are a
\* function of the archive's set of documents and the batch size alone.
BatchesPartitionSorted ==
    (cbPc = "write" \/ Combined) =>
        LET count == Len(pdf_files)
            per == pdfs_per_file
            last(i) == IF (i + 1) * per < count THEN (i + 1) * per ELSE count
        IN /\ Ascending(pdf_files)
           /\ {pdf_files[k] : k \in 1..count} = KeptEntries
           /\ num_output_files * per >= count
           /\ (num_output_files - 1) * per < count
           /\ Len(batches) <= num_output_files
           /\ \A i \in 0..(Len(batches) - 1) :
                 /\ batches[i + 1] =
                       [j \in 1..(last(i) - i * per) |-> pdf_files[i * per + j]]
                 /\ i < num_output_files - 1 => Len(batches[i + 1]) = per
           /\ Combined =>
                 /\ Len(batches) = num_output_files
                 /\ \A k \in 1..count :
                       Cardinality({bj \in (1..Len(batches)) \X (1..per) :
                                       /\ bj[2] <= Len(batches[bj[1]])
                                       /\ batches[bj[1]][bj[2]] = pdf_files[k]})
                          = 1

\* three documents listed out of name order are combined two by two
BatchesPartitionWitness ==
    /\ Combined
    /\ Len(upload.names) = 3
    /\ upload.names[1].stem > upload.names[2].stem
    /\ pdfs_per_file = 2
    /\ Len(pdf_files) = 3
    /\ Len(batches) = 2
    /\ Len(batches[1]) = 2
    /\ Len(batches[2]) = 1

\* C14: with no document that passes the extension filter, or none that
\* parses, combine_pdfs answers an error and writes no output; it never
\* answers a success whose outputs hold no document.
NoSuccessWithoutDocuments ==
    (op = "combine" /\ cbPc = "done" /\ authenticated
        /\ {e \in KeptEntries : e.parses} = {}) =>
        /\ response.status = 400
        /\ output_zip = <<>>

\* C15: a success holds one output per batch, in batch order, the k-th
\* (1-indexed) named combined_ and the three-digit zero-padded k; the output
\* of a batch none of whose documents parses is written too, and is empty.
OneOutputPerBatch ==
    (cbPc = "write" \/ Combined) =>
        /\ Len(output_zip) = Len(batches)
        /\ Combined => Len(output_zip) = num_output_files
        /\ \A k \in 1..Len(output_zip) :
              /\ output_zip[k].filename =
                    <<k \div 100, (k \div 10) % 10, k % 10>>
              /\ (\A d \in 1..Len(batches[k]) : ~batches[k][d].parses)
                    => output_zip[k].pages = <<>>

\* 23 documents and a batch size of 10: three outputs, the third of them
\* empty because none of its three documents parsed
OneOutputPerBatchWitness ==
    /\ Combined
    /\ Len(pdf_files) = 23
    /\ pdfs_per_file = 10
    /\ Len(output_zip) = 3
    /\ output_zip[1].filename = <<0, 0, 1>>
    /\ output_zip[2].filename = <<0, 0, 2>>
    /\ output_zip[3].filename = <<0, 0, 3>>
    /\ Len(output_zip[1].pages) = 10
    /\ Len(batches[3]) = 3
    /\ output_zip[3].pages = <<>>

\* what the pages of a batch's output may be when each member contributes
\* all of its pages, in their order, or none: all when it merges without an
\* error, none when PdfReader rejects it, either for a member that fails on
\* one of its pages
RECURSIVE WholeDocumentMerges(_)
WholeDocumentMerges(batch) ==
    IF batch = <<>> THEN {<<>>}
    ELSE LET e == Head(batch)
             all == [p \in 1..e.pages |-> <<e.stem, p>>]
             own == IF ~e.parses THEN {<<>>}
                    ELSE IF e.raises_at = 0 THEN {all}
                    ELSE {all, <<>>}
         IN {a \o r : a \in own, r \in WholeDocumentMerges(Tail(batch))}

\* C21: each output is the concatenation, in batch order, of all the pages
\* of each member of its batch that parses, in the member's page order; a
\* member that fails contributes no page and stops neither the members after
\* it nor the later batches.
MergeTakesWholeDocuments ==
    (cbPc = "write" \/ Combined) =>
        /\ Len(output_zip) = Len(batches)
        /\ \A k \in 1..Len(output_zip) :
              output_zip[k].pages \in WholeDocumentMerges(batches[k])

(***************************************************************************)
(* Properties of the routes                                                *)
(***************************************************************************)
\* C16: a request to a protected route without an authenticated session
\* never runs the route's function: no upstream call, no stream, no file is
\* processed; it is answered 401 when the path starts with /api/ or the
\* request is JSON, and redirected to the login page otherwise.
UnauthenticatedNeverRuns ==
    (op \in {"index", "candidates", "combine"} /\ ~authenticated) =>
        /\ gcPc = "idle" /\ events = <<>>
        /\ pgPc = "idle" /\ pgSent = <<>>
        /\ rqPc = "idle" /\ rqLog = <<>>
        /\ cbPc = "idle" /\ pdf_files = <<>> /\ output_zip = <<>>
        /\ response \in
              {[status |-> 0, location |-> ""],
               IF op \in {"candidates", "combine"} \/ is_json
                  THEN [status |-> 401, location |-> ""]
                  ELSE [status |-> 302, location |-> "/login"]}

\* an unauthenticated upload of an archive of three entries is answered 401
UnauthenticatedWitness ==
    /\ op = "combine"
    /\ ~authenticated
    /\ ~is_json
    /\ upload.valid
    /\ Len(upload.names) = 3
    /\ response.status = 401

\* C17: get_candidates without a job id answers 400 with no stream opened
\* and no upstream call; combine_pdfs without an uploaded archive, or with a
\* batch size below 1, answers 400 with no document read.
CallerInputRejectedFirst ==
    /\ (op = "candidates" /\ authenticated /\ job_id = "") =>
          /\ gcPc \in {"idle", "rejected"}
          /\ gcPc = "rejected" <=> response.status = 400
          /\ response.status \in {0, 400}
          /\ events = <<>>
          /\ pgPc = "idle" /\ pgSent = <<>>
          /\ rqPc = "idle" /\ rqLog = <<>>
    /\ (op = "combine" /\ authenticated
           /\ (~upload.present \/ (form # <<>> /\ form[1] < 1))) =>
          /\ cbPc \in {"idle", "done"}
          /\ cbPc = "done" <=> response.status = 400
          /\ response.status \in {0, 400}
          /\ pdf_files = <<>>
          /\ batches = <<>>
          /\ output_zip = <<>>

\* an archive of three entries uploaded with a batch size of 0 is rejected
BatchSizeRejectedWitness ==
    /\ op = "combine"
    /\ authenticated
    /\ upload.valid
    /\ Len(upload.names) = 3
    /\ form = <<0>>
    /\ cbPc = "done"
    /\ response.status = 400

(***************************************************************************)
(* Properties of the cursor of ashby_request_paginated                     *)
(***************************************************************************)
\* C18: the first page request carries no cursor and each later one carries
\* the nextCursor of the response just before it, unchanged, with the
\* caller's parameters; a request follows a response only if that response
\* has a true moreDataAvailable and a nextCursor, and a successful response
\* without them ends the fetch with the accumulator as a success.
CursorIsLastNextCursor ==
    /\ \A k \in 1..Len(pgSent) :
          /\ pgSent[k].jobId = data.jobId
          /\ pgSent[k].cursor = (IF k = 1 THEN 0 ELSE pgPages[k - 1].cursor)
          /\ k > 1 => /\ pgPages[k - 1].success
                      /\ pgPages[k - 1].more
                      /\ pgPages[k - 1].cursor # 0
    /\ (pgPc = "loop" /\ pgPages # <<>>) =>
          /\ Last(pgPages).success
          /\ Last(pgPages).more
          /\ Last(pgPages).cursor # 0
    /\ (pgPc = "done" /\ Last(pgPages).success) =>
          /\ ~(Last(pgPages).more /\ Last(pgPages).cursor # 0)
          /\ pgResult.success
          /\ pgResult.results = all_results

\* three requests for the applications of job J1: none, then cursor 1, then
\* cursor 2, each the nextCursor of the page before
CursorWitness ==
    /\ pgPc = "done"
    /\ pgResult.success
    /\ data.jobId = "J1"
    /\ Len(pgSent) = 3
    /\ pgSent[1] = [jobId |-> "J1", cursor |-> 0]
    /\ pgSent[2] = [jobId |-> "J1", cursor |-> 1]
    /\ pgSent[3] = [jobId |-> "J1", cursor |-> 2]
    /\ pgPages[1].cursor = 1
    /\ pgPages[2].cursor = 2

CompleteFrames == {k \in 1..Len(events) : events[k].type = "complete"}

\* C19: a fan-out that has started is never cut short: the stream closes
\* only with every submitted lookup finished and recorded, and the Complete
\* event comes after all of them and carries the whole enriched collection.
CompleteAfterAllLookups ==
    /\ gcPc \in {"fanout", "closed"} =>
          /\ Len(task) = Len(candidate_ids)
          /\ Len(task) = total_candidates
    /\ gcPc = "closed" => \A i \in 1..Len(task) : task[i] = "collected"
    /\ \A k \in CompleteFrames :
          /\ k = Len(events)
          /\ \A i \in 1..Len(task) : task[i] = "collected"
          /\ completed_count = Len(task)
          /\ Len(events[k].candidates) = total_candidates
          /\ \A i \in 1..total_candidates :
                /\ events[k].candidates[i].id = candidate_ids[i]
                /\ events[k].candidates[i].resumeFileHandle =
                      ExpectedHandle(candidate_ids[i])

\* eleven lookups were submitted, the last to be recorded was the first of
\* them, and the Complete event carries all eleven enriched records
CompleteAfterAllWitness ==
    /\ Completed
    /\ Len(task) = 11
    /\ completed_count = 11
    /\ Len(Last(events).candidates) = 11
    /\ Last(events).candidates[1].resumeFileHandle = 104
    /\ Last(events).candidates[10].resumeFileHandle = 113

\* C20: when the listing of the applications fails, by exhausted transient
\* failures or by a failure upstream reports, the stream is the first Status
\* event and then an Error event as its last: no lookup is started and
\* neither Progress nor Complete is emitted.
ListingFailureShortCircuits ==
    (gcPc \notin {"idle", "rejected", "listing"}
        /\ ~applications_result.success) =>
        /\ gcPc = "closed"
        /\ events = <<StatusEvent("Fetching applications...", 0), ErrorEvent>>
        /\ task = <<>>
        /\ candidates = <<>>
        /\ candidate_ids = <<>>
        /\ completed_count = 0

\* the listing is lost to transient failures on every attempt
ListingFailureWitness ==
    /\ gcPc = "closed"
    /\ job_id = "J1"
    /\ ~applications_result.success
    /\ applications_result.errors = "Empty response from API"
    /\ Len(events) = 2
    /\ Last(events).type = "error"

(***************************************************************************)
(* Termination of ashby_request                                            *)
(***************************************************************************)
\* C22: a call of ashby_request issues at most `retries` requests, whatever
\* upstream answers, and returns; with retries = 0 it issues none and returns
\* the failure "Max retries exceeded".
RequestTerminatesWithinRetries ==
    /\ [](/\ Len(rqLog) <= retries
          /\ rqPc = "running" => Len(rqLog) = attempt
          /\ (rqPc = "done" /\ retries = 0) =>
                /\ rqLog = <<>>
                /\ ~rqResult.success
                /\ rqResult.errors = "Max retries exceeded")
    /\ [](rqPc = "running" => <>(rqPc = "done"))

\* upstream answered each of the three requests of a call with 429, and the
\* call has returned
AlwaysRateLimitedWitness ==
    /\ op = "request"
    /\ retries = 3
    /\ rqPc = "done"
    /\ Len(rqLog) = 3
    /\ \A k \in 1..3 : rqLog[k].kind = "rate"
    /\ rqSleeps = <<5, 3, 5>>
    /\ rqResult.errors = "Max retries exceeded"
====
